---- MODULE Spec2Model ----
(***************************************************************************)
(* A model of Dex (src/src/objects/dex.ts): the many-to-many index of      *)
(* tags and entries, with its tables, its per-tag views and the mutating   *)
(* operations add, remove, drop and clear.                                 *)
(*                                                                         *)
(* JavaScript values are modelled as strings.  A Set<T> is a sequence      *)
(* without duplicates (insertion order is observable), a Record<K, V> is a *)
(* function whose DOMAIN is the set of own property keys, and a call that  *)
(* throws keeps every mutation it made before the throw.                   *)
(***************************************************************************)
EXTENDS Integers, Sequences, FiniteSets, TLC

\* ---------------------------------------------------------------- values

\* The value of a missing property, of a failed lookup and of hash(null).
Undefined == "undefined"

\* The entry null.
Null == "null"

\* The number 1 and the string "1": distinct members of a Set, one property
\* key of a Record.
Num1 == "#1"
Str1 == "1"

\* Plain objects (their hash key is their lazily assigned uuid).
Objects == {"objP", "objQ"}

\* string | number | symbol values: every Tag, and every Entry that is its own
\* hash key.
Atoms == {"A", "B", Num1, Str1}

\* The tags and entries of the calls of Spec: string tags, and as entries two
\* objects, a string and null.
PlainTags == {"A", "B"}
PlainEntries == {"objP", "objQ", "B", Null}

\* The tags and entries of the calls of SpecKeyed: the number 1 and the string
\* "1" besides a string tag and an object.
KeyedTags == {"A", Num1, Str1}
KeyedEntries == {"objP", Num1, Str1, Null}

\* Bound: the longest tag array passed to add or drop.
MaxTagsPerCall == 2

\* Bound: the number of calls made on one index.
MaxCalls == 3

\* ---------------------------------------------------------------- helpers

\* typeof symbol === "object" && symbol !== null: true for the plain objects
\* (Objects) and for the arrays a constructor is handed and that reach add as
\* values: the list of groups, its groups, and the tag array inside a group.
\* Used as a tag an array is a property key by its string, which is the string
\* of no other value of the model.
isObject(symbol) ==
  symbol \in {"objP", "objQ", "groups", "group1", "group2", "tagList"}

\* Object.prototype.uuid: the id assigned to an object on first use.
uuid(obj) ==
  [objP |-> "uuidP", objQ |-> "uuidQ", groups |-> "uuidGroups",
   group1 |-> "uuidGroup1", group2 |-> "uuidGroup2",
   tagList |-> "uuidTagList"][obj]

\* The uuid strings of the modelled objects.
Uuids == {uuid(obj) : obj \in Objects}

\* isString(e) || isNumber(e) || isSymbol(e)
isAtomic(symbol) == symbol \in Atoms \cup Uuids

\* The property key a value is converted to when it indexes a Record:
\* a number becomes its decimal string.
PropKey(k) == IF k = Num1 THEN Str1 ELSE k

\* The number 0 and the empty string: the falsy tags.
Num0 == "#0"
EmptyString == ""

\* `tags ? ... : ...`: the tag is not one of the falsy values.
isTruthy(tag) == tag \notin {Num0, EmptyString, Undefined}

\* Set.prototype.has
SetHas(s, x) == \E i \in DOMAIN s : s[i] = x

\* Set.prototype.add as an array's push would do it: the value is added again
\* when the set already has it.
SetAdd_Duplicating(s, x) == Append(s, x)

\* Set.prototype.add
SetAdd(s, x) == IF SetHas(s, x) THEN s ELSE Append(s, x)

\* Set.prototype.delete
SetDelete(s, x) == SelectSeq(s, LAMBDA y : y # x)

\* new Set(array)
RECURSIVE NewSet(_)
NewSet(array) ==
  IF array = <<>> THEN <<>>
  ELSE SetAdd(NewSet(SubSeq(array, 1, Len(array) - 1)), array[Len(array)])

\* record[key] = value
RecordSet(record, key, value) ==
  [k \in DOMAIN record \cup {key} |-> IF k = key THEN value ELSE record[k]]

\* delete record[key]
RecordDelete(record, key) == [k \in DOMAIN record \ {key} |-> record[k]]

\* record[key], undefined when the record has no such property.
RecordGet(record, key) == IF key \in DOMAIN record THEN record[key] ELSE Undefined

\* The numbers as values of the program, "#n" for n; the tag and entry
\* Num1 is the number 1.
NumberAtoms ==
  <<"#0", "#1", "#2", "#3", "#4", "#5", "#6", "#7", "#8", "#9", "#10",
    "#11", "#12", "#13", "#14", "#15", "#16", "#17", "#18", "#19", "#20",
    "#21", "#22", "#23", "#24", "#25", "#26", "#27", "#28", "#29", "#30",
    "#31">>
Number(n) == NumberAtoms[n + 1]

\* Dex.hash
hash(entry) ==
  IF isAtomic(entry) THEN entry
  ELSE IF isObject(entry) THEN uuid(entry)
  ELSE Undefined

\* ---------------------------------------------------------------- calls

\* How a call ended: the object it leaves, what it threw ("none", "Error" for
\* the identity error of add, "TypeError" for a failed member access or call)
\* and what it returned.
Return(this, ret) == [this |-> this, threw |-> "none", ret |-> ret]
Throw(this, error) == [this |-> this, threw |-> error, ret |-> <<>>]

\* A property of the index named after a tag: a list of entries, or the value
\* undefined.
ViewOf(list) == [defined |-> TRUE, items |-> list]
ViewUndefined == [defined |-> FALSE, items |-> <<>>]

\* Dex._updateIndex
_updateIndex(this, forTag) ==
  LET key == PropKey(forTag)
      kept == IF ~SetHas(this._allTags, forTag)
              THEN RecordDelete(this.view, key)
              ELSE this.view
      value == IF key \in DOMAIN this._hashesByTag
               THEN ViewOf([i \in DOMAIN this._hashesByTag[key] |->
                      RecordGet(this._entriesByHash,
                                PropKey(this._hashesByTag[key][i]))])
               ELSE ViewUndefined
  IN [this EXCEPT !.view = RecordSet(kept, key, value)]

\* Dex._removeItemAt reduced to its last line: the entry stays in the tables.
_removeItemAt_CountOnly(this, h) ==
  [this EXCEPT !._numberOfEntries = @ - 1]

\* Dex._removeItemAt
_removeItemAt(this, h) ==
  [this EXCEPT
     !._tagsByEntryHash = RecordDelete(@, PropKey(h)),
     !._entriesByHash = RecordDelete(@, PropKey(h)),
     !._allHashes = SetDelete(@, h),
     !._numberOfEntries = @ - 1]

\* ---------------------------------------------------------------- add

\* The tags argument of add: absent, one tag, or an array of tags.
NoTags == [kind |-> "undefined", items |-> <<>>]
OneTag(tag) == [kind |-> "tag", items |-> <<tag>>]
TagArray(items) == [kind |-> "array", items |-> items]

\* add, lines 845-847: a tags argument that is not an array becomes one.
normalizeTags(tags) ==
  IF tags.kind = "array" THEN tags.items
  ELSE IF tags.kind = "tag" /\ isTruthy(tags.items[1]) THEN tags.items
  ELSE <<>>

\* add, lines 851-858: the entry is registered as a tag with no entries.
addEmptyTag(this, entry) ==
  LET tagged == [this EXCEPT !._allTags = SetAdd(@, entry)]
      ensured == IF PropKey(entry) \notin DOMAIN tagged._hashesByTag
                 THEN [tagged EXCEPT
                         !._hashesByTag = RecordSet(@, PropKey(entry), <<>>)]
                 ELSE tagged
  IN Return(_updateIndex(ensured, entry), <<entry>>)

\* add, lines 864-873: one turn of uniqueTags.forEach.
addForTag(this, h, t) ==
  LET key == PropKey(t)
      tagged == [this EXCEPT !._allTags = SetAdd(@, t)]
      hashed == IF key \in DOMAIN tagged._hashesByTag
                THEN [tagged EXCEPT !._hashesByTag[key] = SetAdd(@, h)]
                ELSE [tagged EXCEPT !._hashesByTag = RecordSet(@, key, <<h>>)]
  IN _updateIndex(hashed, t)

\* add, lines 864-873: uniqueTags.forEach from its i-th tag on.
RECURSIVE addForTags(_, _, _, _)
addForTags(this, h, uniqueTags, i) ==
  IF i > Len(uniqueTags) THEN this
  ELSE addForTags(addForTag(this, h, uniqueTags[i]), h, uniqueTags, i + 1)

\* add, lines 875-881: uniqueTags.forEach(currentTags.add) calls Set.prototype.add
\* without a receiver, which throws on its first turn.
mergeTags(this, h, uniqueTags) ==
  IF PropKey(h) \in DOMAIN this._tagsByEntryHash
  THEN IF uniqueTags # <<>> THEN Throw(this, "TypeError") ELSE Return(this, <<h>>)
  ELSE Return([this EXCEPT
                 !._tagsByEntryHash = RecordSet(@, PropKey(h), uniqueTags)],
              <<h>>)

\* add, lines 883-888, without the test of line 884.
setHashKey_Overwriting(this, h, entry) ==
  [this EXCEPT
     !._allHashes = SetAdd(@, h),
     !._entriesByHash = RecordSet(@, PropKey(h), entry),
     !._numberOfEntries = @ + 1]

\* add, lines 883-888.
setHashKey(this, h, entry) ==
  IF ~SetHas(this._allHashes, h)
  THEN [this EXCEPT
          !._allHashes = SetAdd(@, h),
          !._entriesByHash = RecordSet(@, PropKey(h), entry),
          !._numberOfEntries = @ + 1]
  ELSE this

\* add, lines 860-891: the entry is registered with its tags.
addEntry(this, h, entry, uniqueTags) ==
  LET merged == mergeTags(addForTags(this, h, uniqueTags, 1), h, uniqueTags)
  IN IF merged.threw # "none" THEN merged
     ELSE Return(setHashKey(merged.this, h, entry), <<h>>)

\* Dex.add with the check of the hash made after the tags were registered.
add_HashCheckedLate(this, entry, tags) ==
  IF normalizeTags(tags) = <<>> /\ isAtomic(entry)
  THEN addEmptyTag(this, entry)
  ELSE IF hash(entry) = Undefined
       THEN Throw(addForTags(this, hash(entry), NewSet(normalizeTags(tags)), 1),
                  "Error")
       ELSE addEntry(this, hash(entry), entry, NewSet(normalizeTags(tags)))

\* Dex.add
add(this, entry, tags) ==
  IF hash(entry) = Undefined THEN Throw(this, "Error")
  ELSE IF normalizeTags(tags) = <<>> /\ isAtomic(entry)
       THEN addEmptyTag(this, entry)
       ELSE addEntry(this, hash(entry), entry, NewSet(normalizeTags(tags)))

\* ---------------------------------------------------------------- drop

\* drop, lines 1005-1016: this._hashesByTag[t].forEach from its i-th hash on;
\* effected is effectedEntries so far.
RECURSIVE dropHashes(_, _, _, _, _)
dropHashes(this, t, hashes, i, effected) ==
  IF i > Len(hashes) THEN [this |-> this, threw |-> "none", effected |-> effected]
  ELSE
    LET h == hashes[i]
        marked == SetAdd(effected, RecordGet(this._entriesByHash, PropKey(h)))
    IN IF PropKey(h) \notin DOMAIN this._tagsByEntryHash
       THEN [this |-> this, threw |-> "TypeError", effected |-> marked]
       ELSE
         LET untagged == [this EXCEPT
                            !._tagsByEntryHash[PropKey(h)] = SetDelete(@, t)]
             swept == IF untagged._tagsByEntryHash[PropKey(h)] = <<>>
                      THEN _removeItemAt(untagged, h)
                      ELSE untagged
         IN dropHashes(swept, t, hashes, i + 1, marked)

\* drop, lines 1003-1023: one turn of tags.forEach.
dropTag(this, t, effected) ==
  IF SetHas(this._allTags, t)
  THEN
    LET deleted == [this EXCEPT !._allTags = SetDelete(@, t)]
    IN IF PropKey(t) \notin DOMAIN deleted._hashesByTag
       THEN [this |-> deleted, threw |-> "TypeError", effected |-> effected]
       ELSE
         LET each == dropHashes(deleted, t, deleted._hashesByTag[PropKey(t)],
                                1, effected)
         IN IF each.threw # "none" THEN each
            ELSE [this |-> _updateIndex(
                             [each.this EXCEPT
                                !._hashesByTag = RecordDelete(@, PropKey(t))], t),
                  threw |-> "none", effected |-> each.effected]
  ELSE [this |-> _updateIndex(this, t), threw |-> "none", effected |-> effected]

\* drop, lines 1003-1023: tags.forEach from its i-th tag on.
RECURSIVE dropTags(_, _, _, _)
dropTags(this, tags, i, effected) ==
  IF i > Len(tags) THEN Return(this, effected)
  ELSE
    LET one == dropTag(this, tags[i], effected)
    IN IF one.threw # "none" THEN Throw(one.this, one.threw)
       ELSE dropTags(one.this, tags, i + 1, one.effected)

\* Dex.drop
drop(this, tags) == dropTags(this, tags, 1, <<>>)

\* Dex.clear
clear(this) == drop(this, this._allTags)

\* ---------------------------------------------------------------- remove

\* A predicate (entry, tag) => boolean passed to remove: it answers true for
\* the entry (any entry when "*") under the tag (any tag when "*").
Whichever == "*"
Predicate(entry, tag) == [entry |-> entry, tag |-> tag]
Matches(target, entry, tag) ==
  /\ target.entry \in {Whichever, entry}
  /\ target.tag \in {Whichever, tag}

\* Array.prototype.findIndex(e => target(this._entriesByHash[e], t)), from
\* index i on; 0 when no element matches.
RECURSIVE findIndex(_, _, _, _, _)
findIndex(this, array, target, t, i) ==
  IF i > Len(array) THEN 0
  ELSE IF Matches(target, RecordGet(this._entriesByHash, PropKey(array[i])), t)
       THEN i
       ELSE findIndex(this, array, target, t, i + 1)

\* Array.prototype.splice(index, 1)
splice(array, index) ==
  SubSeq(array, 1, index - 1) \o SubSeq(array, index + 1, Len(array))

\* remove, lines 914-924: the thenDo callback, called with a removed hash.
thenDo(this, removed, t, removedCount) ==
  LET removedEntryHash == hash(removed)
      key == PropKey(removedEntryHash)
  IN IF key \notin DOMAIN this._tagsByEntryHash
     THEN [this |-> this, threw |-> "TypeError", removedCount |-> removedCount]
     ELSE
       LET untagged == [this EXCEPT !._tagsByEntryHash[key] = SetDelete(@, t)]
       IN IF untagged._tagsByEntryHash[key] = <<>>
          THEN [this |-> _removeItemAt(untagged, removedEntryHash),
                threw |-> "none", removedCount |-> removedCount + 1]
          ELSE [this |-> untagged, threw |-> "none",
                removedCount |-> removedCount]

\* Array.prototype.remove with a function target, as remove calls it.
RECURSIVE arrayRemove(_, _, _, _, _)
arrayRemove(this, array, target, t, removedCount) ==
  LET index == findIndex(this, array, target, t, 1)
  IN IF index = 0
     THEN [this |-> this, threw |-> "none", array |-> array,
           removedCount |-> removedCount]
     ELSE
       LET done == thenDo(this, array[index], t, removedCount)
       IN IF done.threw # "none"
          THEN [this |-> done.this, threw |-> done.threw,
                array |-> splice(array, index), removedCount |-> removedCount]
          ELSE arrayRemove(done.this, splice(array, index), target, t,
                           done.removedCount)

\* remove, lines 907-934: one turn of this._allTags.forEach.
removeForTag(this, target, t, emptiedTags, removedCount) ==
  IF PropKey(t) \notin DOMAIN this._hashesByTag
  THEN [this |-> this, threw |-> "TypeError", emptiedTags |-> emptiedTags,
        removedCount |-> removedCount]
  ELSE
    LET each == arrayRemove(this, this._hashesByTag[PropKey(t)], target, t,
                            removedCount)
    IN IF each.threw # "none"
       THEN [this |-> each.this, threw |-> each.threw,
             emptiedTags |-> emptiedTags, removedCount |-> each.removedCount]
       ELSE IF Len(each.array) = 0
            THEN [this |-> _updateIndex(each.this, t), threw |-> "none",
                  emptiedTags |-> SetAdd(emptiedTags, t),
                  removedCount |-> each.removedCount]
            ELSE [this |-> _updateIndex(
                             [each.this EXCEPT
                                !._hashesByTag[PropKey(t)] = each.array], t),
                  threw |-> "none", emptiedTags |-> emptiedTags,
                  removedCount |-> each.removedCount]

\* remove, lines 907-934: this._allTags.forEach from its i-th tag on.
RECURSIVE removeForTags(_, _, _, _, _)
removeForTags(this, target, i, emptiedTags, removedCount) ==
  IF i > Len(this._allTags)
  THEN [this |-> this, threw |-> "none", emptiedTags |-> emptiedTags,
        removedCount |-> removedCount]
  ELSE
    LET one == removeForTag(this, target, this._allTags[i], emptiedTags,
                            removedCount)
    IN IF one.threw # "none" THEN one
       ELSE removeForTags(one.this, target, i + 1, one.emptiedTags,
                          one.removedCount)

\* remove, lines 940-945: effectedTags.forEach from its i-th tag on.
RECURSIVE removeFromTags(_, _, _, _, _)
removeFromTags(this, h, effectedTags, i, emptiedTags) ==
  IF i > Len(effectedTags)
  THEN [this |-> this, threw |-> "none", emptiedTags |-> emptiedTags]
  ELSE
    LET key == PropKey(effectedTags[i])
    IN IF key \notin DOMAIN this._hashesByTag
       THEN [this |-> this, threw |-> "TypeError", emptiedTags |-> emptiedTags]
       ELSE
         LET deleted == [this EXCEPT !._hashesByTag[key] = SetDelete(@, h)]
         IN removeFromTags(deleted, h, effectedTags, i + 1,
              IF deleted._hashesByTag[key] = <<>>
              THEN SetAdd(emptiedTags, effectedTags[i])
              ELSE emptiedTags)

\* remove, lines 936-948: the target is an entry or a hash key.
removeByHash(this, target) ==
  LET h == hash(target)
  IN IF PropKey(h) \notin DOMAIN this._tagsByEntryHash
     THEN [this |-> this, threw |-> "none", emptiedTags |-> <<>>]
     ELSE
       LET each == removeFromTags(this, h, this._tagsByEntryHash[PropKey(h)],
                                  1, <<>>)
       IN IF each.threw # "none" THEN each
          ELSE [this |-> _removeItemAt(each.this, h), threw |-> "none",
                emptiedTags |-> each.emptiedTags]

\* Dex.remove, the target being a predicate.
removeWhere(this, target, cleanEmptyTags) ==
  LET each == removeForTags(this, target, 1, <<>>, 0)
  IN IF each.threw # "none" THEN Throw(each.this, each.threw)
     ELSE IF cleanEmptyTags
          THEN LET dropped == drop(each.this, each.emptiedTags)
               IN IF dropped.threw # "none" THEN dropped
                  ELSE Return(dropped.this, <<each.removedCount>>)
          ELSE Return(each.this, <<each.removedCount>>)

\* Dex.remove for an entry or a hash key, dropping the emptied tags whatever
\* cleanEmptyTags says.
removeEntry_AlwaysCleaning(this, target, cleanEmptyTags) ==
  LET each == removeByHash(this, target)
  IN IF each.threw # "none" THEN Throw(each.this, each.threw)
     ELSE LET dropped == drop(each.this, each.emptiedTags)
          IN IF dropped.threw # "none" THEN dropped
             ELSE Return(dropped.this, <<0>>)

\* Dex.remove, the target being an entry or a hash key.
removeEntry(this, target, cleanEmptyTags) ==
  LET each == removeByHash(this, target)
  IN IF each.threw # "none" THEN Throw(each.this, each.threw)
     ELSE IF cleanEmptyTags
          THEN LET dropped == drop(each.this, each.emptiedTags)
               IN IF dropped.threw # "none" THEN dropped
                  ELSE Return(dropped.this, <<0>>)
          ELSE Return(each.this, <<0>>)

\* ---------------------------------------------------------------- tags.for

\* The members of the object that `this` is inside TagSet.for when it is called
\* as dex.tags.for(target): the Set _allTags that for was attached to, which
\* has none of the fields of the index.
TagSetReceiver == [for |-> "function"]

\* TagSet.for, the target an entry or a hash key (undefined when absent).
tagsFor(this, target) ==
  IF target = Undefined THEN Return(this, <<RecordGet(TagSetReceiver, "tags")>>)
  ELSE IF "_tagsByEntryHash" \notin DOMAIN TagSetReceiver
       THEN Throw(this, "TypeError")
       ELSE Return(this,
              IF PropKey(hash(target)) \in DOMAIN this._tagsByEntryHash
              THEN this._tagsByEntryHash[PropKey(hash(target))]
              ELSE <<>>)

\* ---------------------------------------------------------------- constructor

\* The fields of a new index, lines 232-246.
NewDex ==
  [_numberOfEntries |-> 0, _allTags |-> <<>>, _allHashes |-> <<>>,
   _hashesByTag |-> <<>>, _tagsByEntryHash |-> <<>>, _entriesByHash |-> <<>>,
   view |-> <<>>]

\* constructor, lines 333-335: values is one object {entry, tags, tag}.
constructFromObject(values) ==
  add(NewDex, values.entry,
      IF values.tags.kind = "undefined"
         \/ (values.tags.kind = "tag" /\ ~isTruthy(values.tags.items[1]))
      THEN values.tag
      ELSE values.tags)

\* constructor, lines 325-328: values is an array of bare tags, added one by
\* one from the i-th on.
RECURSIVE constructFromTags(_, _, _)
constructFromTags(this, tags, i) ==
  IF i > Len(tags) THEN Return(this, <<>>)
  ELSE LET one == add(this, tags[i], NoTags)
       IN IF one.threw # "none" THEN one
          ELSE constructFromTags(one.this, tags, i + 1)

\* constructor, line 314: values is an array of n groups. forEach calls its
\* callback with (group, index, values): add gets the group itself for entry
\* and [index, values] for tags, whatever the group holds. From the i-th group
\* on.
GroupArrays == <<"group1", "group2">>
RECURSIVE constructFromGroups(_, _, _)
constructFromGroups(this, n, i) ==
  IF i > n THEN Return(this, <<>>)
  ELSE LET one == add(this, GroupArrays[i],
                      TagArray(<<Number(i - 1), "groups">>))
       IN IF one.threw # "none" THEN one
          ELSE constructFromGroups(one.this, n, i + 1)

\* constructor, lines 329-331: values is a Map, given as the list of its
\* (entry, tags) pairs in the order of insertion; a Set of tags and an array
\* of tags are treated alike by add. From the i-th pair on.
RECURSIVE constructFromMap(_, _, _)
constructFromMap(this, pairs, i) ==
  IF i > Len(pairs) THEN Return(this, <<>>)
  ELSE LET one == add(this, pairs[i].entry, TagArray(pairs[i].tags))
       IN IF one.threw # "none" THEN one
          ELSE constructFromMap(one.this, pairs, i + 1)

\* The members of the array that is a group: [entry, tag...] or [entry, [tags]].
GroupItems(group) ==
  IF group.spread THEN <<group.entry>> \o group.tags
  ELSE <<group.entry, "tagList">>

\* constructor, lines 309-336, for groups of a plain object and tags: handed
\* over in one list ("nested"), as the arguments of the call ("variadic"), of
\* which values is the first, or as a Map ("map").
constructor(given) ==
  IF given.form = "map" THEN constructFromMap(NewDex, given.groups, 1)
  ELSE IF given.form = "nested"
       THEN constructFromGroups(NewDex, Len(given.groups), 1)
       ELSE constructFromTags(NewDex, GroupItems(given.groups[1]), 1)

\* ---------------------------------------------------------------- entries and queries

\* The names and the numbers of the enum Flags: what `x in Flags` answers true
\* for (a number is looked up as its decimal string).
FlagKeys == {"Strict", "Or", "And", "First", "Not", "Chain",
             "0", "1", "2", "4", "8", "16"}

\* The members of a Set or of an array, without their order.
Members(s) == {s[i] : i \in DOMAIN s}

\* The keys of a Record as a list; the order Object.values follows is not
\* modelled, only that every key comes once.
RECURSIVE KeyList(_)
KeyList(keys) ==
  IF keys = {} THEN <<>>
  ELSE LET k == CHOOSE k \in keys : TRUE IN <<k>> \o KeyList(keys \ {k})

\* Dex.entries
entries(this) ==
  [i \in DOMAIN KeyList(DOMAIN this._entriesByHash) |->
     this._entriesByHash[KeyList(DOMAIN this._entriesByHash)[i]]]

\* enum Flags
Strict == 0
Or == 1
And == 2
First == 4
Not == 8
Chain == 16
Flags == {Strict, Or, And, First, Not, Chain}

\* value in Flags: the enum object has its names and, as strings, its numbers
\* for keys, and a number is looked up as its decimal string.
inFlags(value) ==
  \/ PropKey(value) \in FlagKeys
  \/ \E n \in Flags : value = Number(n)

\* The number a value is taken for by | and &: itself for a number, the number
\* written for a decimal string, 0 (from NaN) for undefined and other strings.
ToInt32(value) ==
  IF \E n \in DOMAIN NumberAtoms : NumberAtoms[n] = value
  THEN (CHOOSE n \in DOMAIN NumberAtoms : NumberAtoms[n] = value) - 1
  ELSE IF value = "1" THEN 1 ELSE 0

\* a | b and a & b
RECURSIVE BitOr(_, _)
BitOr(a, b) ==
  IF a = 0 THEN b
  ELSE IF b = 0 THEN a
  ELSE (IF a % 2 = 1 \/ b % 2 = 1 THEN 1 ELSE 0) + 2 * BitOr(a \div 2, b \div 2)
RECURSIVE BitAnd(_, _)
BitAnd(a, b) ==
  IF a = 0 \/ b = 0 THEN 0
  ELSE (IF a % 2 = 1 /\ b % 2 = 1 THEN 1 ELSE 0) + 2 * BitAnd(a \div 2, b \div 2)

\* An argument of the query methods is undefined (NoTags), one value that is
\* no array (OneTag: a tag or a flag number) or an array (TagArray).

\* The call base(tags, options) that _splitForTagsOrOptions and the select
\* builders end in: tags is undefined or an array, options undefined or a value.
BaseCall(tags, options) == [tags |-> tags, options |-> options]

\* Dex._splitForTagsOrOptions: the call of base it makes.
_splitForTagsOrOptions(tagsOrOptions, additionalTags) ==
  IF tagsOrOptions.kind = "undefined" THEN BaseCall(NoTags, Undefined)
  ELSE IF tagsOrOptions.kind = "tag" /\ inFlags(tagsOrOptions.items[1])
       THEN BaseCall(IF additionalTags.kind = "tag"
                     THEN TagArray(additionalTags.items)
                     ELSE additionalTags,
                     tagsOrOptions.items[1])
       ELSE BaseCall(TagArray(tagsOrOptions.items \o additionalTags.items),
                     Undefined)

\* The callback of Dex.values: it returns its empty array whatever tags and
\* options it is called with.
valuesCallback(call) == <<>>

\* Dex.values(tagsOrOptions, additionalTags)
values(this, tagsOrOptions, additionalTags) ==
  IF \/ tagsOrOptions.kind = "undefined"
     \/ tagsOrOptions.kind = "tag" /\ ~isTruthy(tagsOrOptions.items[1])
  THEN Return(this, entries(this))
  ELSE Return(this,
         valuesCallback(_splitForTagsOrOptions(tagsOrOptions, additionalTags)))

\* A method called as a member of the index has the index for `this`; handed
\* on as a bare function (this.filter, this.with) it is called with `this`
\* undefined.
Bound == TRUE
Unbound == FALSE

\* The argument an optional value is passed as.
Optional(value) == IF value = Undefined THEN NoTags ELSE OneTag(value)

\* Dex.with(tags, options): it reads this.values, and returns nothing.
with(this, receiver, tags, options) ==
  IF receiver = Unbound THEN Throw(this, "TypeError")
  ELSE IF values(this, Optional(options), tags).threw # "none"
       THEN values(this, Optional(options), tags)
       ELSE Return(this, <<Undefined>>)

\* Dex.select called as a function, without accessors: with is handed to
\* _splitForTagsOrOptions as a bare function.
select(this, tagsOrOptions, additionalTags) ==
  LET call == _splitForTagsOrOptions(tagsOrOptions, additionalTags)
  IN with(this, Unbound, call.tags, call.options)

\* Dex._addFlags(base, extraFlags): the arguments the function it returns
\* calls base with.
_addFlags(extraFlags, tagsOrOptions, additionalTags) ==
  IF tagsOrOptions.kind = "undefined"
  THEN <<OneTag(Number(extraFlags)), NoTags>>
  ELSE IF tagsOrOptions.kind = "tag" /\ inFlags(tagsOrOptions.items[1])
       THEN <<OneTag(Number(BitOr(ToInt32(tagsOrOptions.items[1]), extraFlags))),
              additionalTags>>
       ELSE <<OneTag(Number(extraFlags)),
              TagArray(tagsOrOptions.items \o additionalTags.items)>>

\* Dex._addSubQueries: the accessors not, and, or, first of select and of what
\* they return wrap the function they are read from by _addFlags. The chain
\* lists the flags of the accessors in the order they are read, so the last
\* wraps all others. The call of with that select.<chain>(tagsOrOptions,
\* additionalTags) ends in:
RECURSIVE selectCall(_, _, _)
selectCall(chain, tagsOrOptions, additionalTags) ==
  IF chain = <<>> THEN _splitForTagsOrOptions(tagsOrOptions, additionalTags)
  ELSE LET passed == _addFlags(chain[Len(chain)], tagsOrOptions, additionalTags)
       IN selectCall(SubSeq(chain, 1, Len(chain) - 1), passed[1], passed[2])

\* select.<chain>(tagsOrOptions, additionalTags)
selectChain(this, chain, tagsOrOptions, additionalTags) ==
  LET call == selectCall(chain, tagsOrOptions, additionalTags)
  IN with(this, Unbound, call.tags, call.options)

\* Dex.filter(tags, options)
filter(this, receiver, tags, options) ==
  IF BitAnd(ToInt32(options), Chain) # 0
  THEN IF receiver = Unbound THEN Throw(this, "TypeError")
       ELSE select(this, Optional(options), tags)
  ELSE IF receiver = Unbound THEN Throw(this, "TypeError")
       ELSE values(this, Optional(options), tags)

\* Dex.query(tagsOrOptions, additionalTags): filter is handed to
\* _splitForTagsOrOptions as a bare function.
query(this, tagsOrOptions, additionalTags) ==
  LET call == _splitForTagsOrOptions(tagsOrOptions, additionalTags)
  IN filter(this, Unbound, call.tags, call.options)

\* Dex.count(tagOrOptions, ...additionalTags): the body is empty, the call
\* returns no value.
count(this, tagOrOptions, additionalTags) == Return(this, <<>>)

\* ---------------------------------------------------------------- traversal

\* A visitor is modelled by the arguments it answers BREAK for: a set of
\* <<entry, tag>> pairs for forEach, a set of entries for forEachEntry and
\* toArray, a set of tags for forEachTag and splay.

\* How a traversal ended: what func was called with, in order, and what the
\* traversal threw.
Visited(calls_, error) == [visited |-> calls_, threw |-> error]

\* The inner loop of forEach over the pairs of one group from the i-th on: func
\* is called for each pair until it answers BREAK.
RECURSIVE innerLoop(_, _, _)
innerLoop(pairs, stopAt, i) ==
  IF i > Len(pairs) THEN <<>>
  ELSE IF pairs[i] \in stopAt THEN <<pairs[i]>>
       ELSE <<pairs[i]>> \o innerLoop(pairs, stopAt, i + 1)

\* Dex.forEach with outerLoopType 'entry', from the i-th hash on.
RECURSIVE forEachByEntry(_, _, _, _)
forEachByEntry(this, stopAt, i, done) ==
  IF i > Len(this._allHashes) THEN Visited(done, "none")
  ELSE LET h == PropKey(this._allHashes[i])
       IN IF h \notin DOMAIN this._tagsByEntryHash
          THEN Visited(done, "TypeError")
          ELSE forEachByEntry(this, stopAt, i + 1,
                 done \o innerLoop(
                   [j \in DOMAIN this._tagsByEntryHash[h] |->
                      <<RecordGet(this._entriesByHash, h),
                        this._tagsByEntryHash[h][j]>>],
                   stopAt, 1))

\* Dex.forEach with outerLoopType 'tag', from the i-th tag on.
RECURSIVE forEachByTag(_, _, _, _)
forEachByTag(this, stopAt, i, done) ==
  IF i > Len(this._allTags) THEN Visited(done, "none")
  ELSE LET t == this._allTags[i]
       IN IF PropKey(t) \notin DOMAIN this._hashesByTag
          THEN Visited(done, "TypeError")
          ELSE forEachByTag(this, stopAt, i + 1,
                 done \o innerLoop(
                   [j \in DOMAIN this._hashesByTag[PropKey(t)] |->
                      <<RecordGet(this._entriesByHash,
                                  PropKey(this._hashesByTag[PropKey(t)][j])),
                        t>>],
                   stopAt, 1))

\* Dex.forEach
forEach(this, stopAt, outerLoopType) ==
  IF outerLoopType = "tag" THEN forEachByTag(this, stopAt, 1, <<>>)
  ELSE forEachByEntry(this, stopAt, 1, <<>>)

\* Dex.forEachEntry from the i-th hash on: func is called with each entry (and
\* its tags) until it answers BREAK, which ends the loop.
RECURSIVE forEachEntryFrom(_, _, _)
forEachEntryFrom(this, stopAt, i) ==
  IF i > Len(this._allHashes) THEN <<>>
  ELSE LET entry == RecordGet(this._entriesByHash, PropKey(this._allHashes[i]))
       IN IF entry \in stopAt THEN <<entry>>
          ELSE <<entry>> \o forEachEntryFrom(this, stopAt, i + 1)

\* Dex.forEachEntry
forEachEntry(this, stopAt) == Visited(forEachEntryFrom(this, stopAt, 1), "none")

\* Set.prototype.map as forEachTag calls it, with an arrow function: reading
\* transform.arguments of an arrow function raises a TypeError before the
\* first member is looked at.
SetMap(set) == "TypeError"

\* Dex.forEachTag: the argument list of the first call of func is evaluated
\* first, _hashesByTag[tag].map(...), and raises a TypeError whether the tag
\* has a set or not.
forEachTag(this, stopAt) ==
  IF this._allTags = <<>> THEN Visited(<<>>, "none")
  ELSE IF PropKey(this._allTags[1]) \notin DOMAIN this._hashesByTag
       THEN Visited(<<>>, "TypeError")
       ELSE Visited(<<>>, SetMap(this._hashesByTag[PropKey(this._allTags[1])]))

\* Dex.toArray(transform): the results of transform for the entries
\* forEachEntry visits, none for the entry transform answers BREAK for.
toArray(this, stopAt) ==
  Visited(SelectSeq(forEachEntry(this, stopAt).visited,
                    LAMBDA entry : entry \notin stopAt),
          forEachEntry(this, stopAt).threw)

\* Dex.splay(transform)
splay(this, stopAt) == forEachTag(this, stopAt)

\* ---------------------------------------------------------------- state

VARIABLES
  _numberOfEntries,   \* Dex._numberOfEntries
  _allTags,           \* Dex._allTags
  _allHashes,         \* Dex._allHashes
  _hashesByTag,       \* Dex._hashesByTag
  _tagsByEntryHash,   \* Dex._tagsByEntryHash
  _entriesByHash,     \* Dex._entriesByHash
  view,               \* the properties of the index named after tags
  last,               \* the latest call: its name, arguments and outcome,
                      \* and whether it repeats the call before it
  calls               \* the number of calls made so far

tables == <<_numberOfEntries, _allTags, _allHashes, _hashesByTag,
            _tagsByEntryHash, _entriesByHash, view>>

vars == <<_numberOfEntries, _allTags, _allHashes, _hashesByTag,
          _tagsByEntryHash, _entriesByHash, view, last, calls>>

\* The index as the object the operations work on.
This ==
  [_numberOfEntries |-> _numberOfEntries,
   _allTags |-> _allTags,
   _allHashes |-> _allHashes,
   _hashesByTag |-> _hashesByTag,
   _tagsByEntryHash |-> _tagsByEntryHash,
   _entriesByHash |-> _entriesByHash,
   view |-> view]

\* new Dex()
Init ==
  /\ _numberOfEntries = NewDex._numberOfEntries
  /\ _allTags = NewDex._allTags
  /\ _allHashes = NewDex._allHashes
  /\ _hashesByTag = NewDex._hashesByTag
  /\ _tagsByEntryHash = NewDex._tagsByEntryHash
  /\ _entriesByHash = NewDex._entriesByHash
  /\ view = NewDex.view
  /\ last = [op |-> "new", args |-> <<>>, threw |-> "none", ret |-> <<>>,
             again |-> FALSE]
  /\ calls = 0

\* The call op(args) ends as `outcome` says.
Call(op, args, outcome) ==
  /\ calls' = calls + 1
  /\ _numberOfEntries' = outcome.this._numberOfEntries
  /\ _allTags' = outcome.this._allTags
  /\ _allHashes' = outcome.this._allHashes
  /\ _hashesByTag' = outcome.this._hashesByTag
  /\ _tagsByEntryHash' = outcome.this._tagsByEntryHash
  /\ _entriesByHash' = outcome.this._entriesByHash
  /\ view' = outcome.this.view
  /\ last' = [op |-> op, args |-> args, threw |-> outcome.threw,
              ret |-> outcome.ret,
              again |-> (last.op = op /\ last.args = args)]

\* The arrays of at most n of the given tags.
RECURSIVE TagArrays(_, _)
TagArrays(tags, n) ==
  IF n = 0 THEN {<<>>}
  ELSE TagArrays(tags, n - 1) \cup
       {Append(a, t) : a \in {b \in TagArrays(tags, n - 1) : Len(b) = n - 1},
                       t \in tags}

\* The tags arguments add is called with.
TagArguments(tags) ==
  {NoTags} \cup {OneTag(t) : t \in tags}
           \cup {TagArray(a) : a \in TagArrays(tags, MaxTagsPerCall)}

\* The entries and hash keys remove is called with.
Targets(pool) == pool \cup {hash(e) : e \in pool \cap Objects}

\* The predicates remove is called with.
Predicates(pool, tags) ==
  {Predicate(e, t) : e \in (pool \ {Null}) \cup {Whichever},
                     t \in tags \cup {Whichever}}

\* dex.add(entry, tags)
Add ==
  \E entry \in PlainEntries, given \in TagArguments(PlainTags) :
    /\ calls < MaxCalls
    /\ Call("add", <<entry, given>>, add(This, entry, given))

\* dex.remove(target, cleanEmptyTags), the target an entry or a hash key
RemoveEntry ==
  \E target \in Targets(PlainEntries), cleanEmptyTags \in BOOLEAN :
    /\ calls < MaxCalls
    /\ Call("remove", <<target, cleanEmptyTags>>,
            removeEntry(This, target, cleanEmptyTags))

\* dex.remove(target, cleanEmptyTags), the target a predicate
RemoveWhere ==
  \E target \in Predicates(PlainEntries, PlainTags), cleanEmptyTags \in BOOLEAN :
    /\ calls < MaxCalls
    /\ Call("removeWhere", <<target, cleanEmptyTags>>,
            removeWhere(This, target, cleanEmptyTags))

\* dex.drop(...tags)
Drop ==
  \E given \in TagArrays(PlainTags, MaxTagsPerCall) :
    /\ calls < MaxCalls
    /\ Call("drop", <<given>>, drop(This, given))

\* dex.clear()
Clear ==
  /\ calls < MaxCalls
  /\ Call("clear", <<>>, clear(This))

\* The calls with string tags and object, string or null entries.
Next == Add \/ RemoveEntry \/ RemoveWhere \/ Drop \/ Clear

Spec == Init /\ [][Next]_vars

\* The same calls, their tags and entries including the number 1 and the
\* string "1".
AddKeyed ==
  \E entry \in KeyedEntries, given \in TagArguments(KeyedTags) :
    /\ calls < MaxCalls
    /\ Call("add", <<entry, given>>, add(This, entry, given))

RemoveEntryKeyed ==
  \E target \in Targets(KeyedEntries), cleanEmptyTags \in BOOLEAN :
    /\ calls < MaxCalls
    /\ Call("remove", <<target, cleanEmptyTags>>,
            removeEntry(This, target, cleanEmptyTags))

RemoveWhereKeyed ==
  \E target \in Predicates(KeyedEntries, KeyedTags), cleanEmptyTags \in BOOLEAN :
    /\ calls < MaxCalls
    /\ Call("removeWhere", <<target, cleanEmptyTags>>,
            removeWhere(This, target, cleanEmptyTags))

DropKeyed ==
  \E given \in TagArrays(KeyedTags, MaxTagsPerCall) :
    /\ calls < MaxCalls
    /\ Call("drop", <<given>>, drop(This, given))

NextKeyed ==
  AddKeyed \/ RemoveEntryKeyed \/ RemoveWhereKeyed \/ DropKeyed \/ Clear

SpecKeyed == Init /\ [][NextKeyed]_vars

\* The chains of at most MaxChain accessors of select.
MaxChain == 2
RECURSIVE Chains(_)
Chains(n) ==
  IF n = 0 THEN {<<>>}
  ELSE Chains(n - 1) \cup
       {Append(c, f) : c \in {d \in Chains(n - 1) : Len(d) = n - 1},
                       f \in {Not, And, Or, First}}

\* The first arguments of a select call: a tag, an array of tags or a flag; and
\* the second ones: none, a tag or an array of tags.
FirstArguments ==
  {OneTag("A"), TagArray(<<"A", "B">>)} \cup {OneTag(Number(f)) : f \in Flags}
SecondArguments ==
  {NoTags, OneTag("B"), TagArray(<<"A">>), TagArray(<<"B", "A">>)}

\* select.<chain>(tagsOrOptions, additionalTags) on the index
Select ==
  \E chain \in Chains(MaxChain), tagsOrOptions \in FirstArguments,
     additionalTags \in SecondArguments :
    /\ calls < MaxCalls
    /\ Call("select", <<chain, tagsOrOptions, additionalTags>>,
            selectChain(This, chain, tagsOrOptions, additionalTags))

\* A new index on which select is called.
SpecSelect == Init /\ [][Select]_vars

\* What the constructor is handed: one or two groups of an object and its tags,
\* in one list or as arguments, or a Map of one or two entries of any kind.
Groups ==
  [entry : Objects,
   tags : TagArrays(PlainTags, MaxTagsPerCall) \ {<<>>},
   spread : BOOLEAN]
MapPairs ==
  [entry : {"objP", "B", Num1, Str1},
   tags : TagArrays(PlainTags, MaxTagsPerCall)]
Given ==
  {[form |-> f, groups |-> g] :
     f \in {"nested", "variadic"},
     g \in {<<a>> : a \in Groups} \cup {<<a, b>> : a, b \in Groups}}
  \cup
  {[form |-> "map", groups |-> g] :
     g \in {<<a>> : a \in MapPairs}
             \cup {p \in {<<a, b>> : a, b \in MapPairs} :
                     p[1].entry # p[2].entry}}

\* The index is what the constructor left, with one more call to take.
Constructed(given, outcome) ==
  /\ _numberOfEntries = outcome.this._numberOfEntries
  /\ _allTags = outcome.this._allTags
  /\ _allHashes = outcome.this._allHashes
  /\ _hashesByTag = outcome.this._hashesByTag
  /\ _tagsByEntryHash = outcome.this._tagsByEntryHash
  /\ _entriesByHash = outcome.this._entriesByHash
  /\ view = outcome.this.view
  /\ last = [op |-> "new", args |-> <<given>>, threw |-> outcome.threw,
             ret |-> <<>>, again |-> FALSE]
  /\ calls = MaxCalls - 1

\* new Dex(given)
InitConstructed == \E given \in Given : Constructed(given, constructor(given))

SpecConstructed == InitConstructed /\ [][Next]_vars

\* The names of the fields of the index (lines 232-246): properties of the
\* same object that _updateIndex writes the tag-named views to.
MemberNames ==
  {"_numberOfEntries", "_allTags", "_allHashes", "_hashesByTag",
   "_tagsByEntryHash", "_entriesByHash"}

\* The fields of the index that `this[forTag] = ...` or `delete this[forTag]`
\* of _updateIndex has replaced by the view of a tag of that name.
overwritten(this) == MemberNames \cap DOMAIN this.view

\* The tags of the calls of SpecUnusual: a string tag, the falsy tags 0 and "",
\* and a tag that has the name of a field.
UnusualTags == {"A", Num0, EmptyString, "_allTags"}

\* dex.add(entry, tag) with one tag that is not in a list. The model follows an
\* index until one of its fields is replaced.
AddUnusual ==
  \E entry \in PlainEntries, tag \in UnusualTags :
    /\ calls < MaxCalls
    /\ overwritten(This) = {}
    /\ Call("add", <<entry, OneTag(tag)>>, add(This, entry, OneTag(tag)))

\* dex.drop(tag)
DropUnusual ==
  \E tag \in UnusualTags :
    /\ calls < MaxCalls
    /\ overwritten(This) = {}
    /\ Call("drop", <<(<<tag>>)>>, drop(This, <<tag>>))

NextUnusual == AddUnusual \/ DropUnusual

SpecUnusual == Init /\ [][NextUnusual]_vars

\* ---------------------------------------------------------------- readers

\* Every hash key of the modelled entries.
HashKeys == Atoms \cup Uuids

\* Dex.numberOfEntries and Dex.numberOfTags
numberOfEntries == _numberOfEntries
numberOfTags == Len(_allTags)

\* hash is in _hashesByTag[tag]
TagHasHash(t, h) ==
  /\ PropKey(t) \in DOMAIN _hashesByTag
  /\ SetHas(_hashesByTag[PropKey(t)], h)

\* tag is in _tagsByEntryHash[hash]
HashHasTag(h, t) ==
  /\ PropKey(h) \in DOMAIN _tagsByEntryHash
  /\ SetHas(_tagsByEntryHash[PropKey(h)], t)

\* The entries stored for the hashes of a tag, in the order of its set.
EntriesOfTag(t) ==
  [i \in DOMAIN _hashesByTag[PropKey(t)] |->
     RecordGet(_entriesByHash, PropKey(_hashesByTag[PropKey(t)][i]))]

\* The latest call was add(entry, tags) with these properties.
LastAdd == last.op = "add"
LastEntry == last.args[1]

\* ---------------------------------------------------------------- claims

\* C1: after every operation, for every tag t and hash h, h is in
\* hashesByTag[t] if and only if t is in tagsByEntryHash[h].
C1_TagAndHashTablesAgree ==
  \A t \in Atoms, h \in HashKeys : TagHasHash(t, h) <=> HashHasTag(h, t)

\* C2: after every operation, the view of every tag in allTags is the list of
\* the stored entries, none undefined, of the hashes in hashesByTag[tag], in
\* that set's order.
C2_ViewsAreCurrent ==
  \A i \in DOMAIN _allTags :
    LET t == _allTags[i] IN
      /\ PropKey(t) \in DOMAIN _hashesByTag
      /\ PropKey(t) \in DOMAIN view
      /\ view[PropKey(t)] = ViewOf(EntriesOfTag(t))
      /\ \A j \in DOMAIN EntriesOfTag(t) : EntriesOfTag(t)[j] # Undefined

\* C3, as claimed: after every operation every hash in allHashes has a non-empty
\* tag set.
C3_NoEntryWithoutTags ==
  \A i \in DOMAIN _allHashes :
    /\ PropKey(_allHashes[i]) \in DOMAIN _tagsByEntryHash
    /\ _tagsByEntryHash[PropKey(_allHashes[i])] # <<>>

\* hash is in allHashes with an empty tag set.
Untagged(h) ==
  /\ SetHas(_allHashes, h)
  /\ PropKey(h) \in DOMAIN _tagsByEntryHash
  /\ _tagsByEntryHash[PropKey(h)] = <<>>

\* C3, as amended: a hash is in allHashes with an empty tag set only from an add
\* of its entry with no tags; no operation leaves in allHashes an entry whose
\* tag set it emptied.
C3_UntaggedOnlyByAddWithoutTags ==
  [][\A h \in HashKeys :
       Untagged(h)' =>
         \/ Untagged(h)
         \/ /\ last'.op = "add"
            /\ hash(last'.args[1]) = h
            /\ normalizeTags(last'.args[2]) = <<>>]_vars

\* C3: a drop has deleted the entries it left without tags while an entry that
\* was added with no tags is still in the index.
C3_Witness ==
  /\ last.op = "drop"
  /\ last.threw = "none"
  /\ \E i \in DOMAIN last.ret : ~SetHas(_allHashes, hash(last.ret[i]))
  /\ \E h \in HashKeys : Untagged(h)

\* C4: adding a non-atomic entry with no tags, or constructing the index from
\* {entry}, registers the entry with an empty tag set: numberOfEntries grows by
\* one, numberOfTags is unchanged, the hash is in hashes and tags.for returns
\* the empty set for it.
C4_EntryWithoutTagsIsRegistered ==
  [][(/\ last'.op = "add"
      /\ last'.args[1] \in Objects
      /\ normalizeTags(last'.args[2]) = <<>>
      /\ ~SetHas(_allHashes, hash(last'.args[1])))
     =>
     (/\ numberOfEntries' = numberOfEntries + 1
      /\ numberOfTags' = numberOfTags
      /\ SetHas(_allHashes', hash(last'.args[1]))
      /\ (This = NewDex) =>
           (constructFromObject([entry |-> last'.args[1], tags |-> NoTags,
                                 tag |-> NoTags]).this = This')
      /\ tagsFor(This', hash(last'.args[1])).threw = "none"
      /\ tagsFor(This', hash(last'.args[1])).ret = <<>>)]_vars

\* C5: after every operation, a tag is in allTags if and only if hashesByTag
\* has a set for it.
C5_TagsAreTheKeysOfHashesByTag ==
  \A t \in Atoms : SetHas(_allTags, t) <=> PropKey(t) \in DOMAIN _hashesByTag

\* C6: after every operation, for every hash h, `h is in allHashes`,
\* `entriesByHash[h] is defined` and `tagsByEntryHash[h] is defined` are all
\* true or all false.
C6_HashTablesAgree ==
  \A h \in HashKeys :
    /\ SetHas(_allHashes, h) <=> PropKey(h) \in DOMAIN _entriesByHash
    /\ SetHas(_allHashes, h) <=> PropKey(h) \in DOMAIN _tagsByEntryHash

\* C7: after every operation, numberOfEntries is the number of hashes in
\* allHashes, never negative, and numberOfTags is the number of tags in allTags.
C7_CountsMatchTheSets ==
  /\ numberOfEntries = Len(_allHashes)
  /\ numberOfEntries >= 0
  /\ numberOfTags = Len(_allTags)

\* C8: add of an entry without a hash key raises the identity error and leaves
\* every table, the entry count and every view as before the call.
C8_IdentityErrorLeavesIndexUntouched ==
  [][(last'.op = "add" /\ hash(last'.args[1]) = Undefined)
     => (last'.threw = "Error" /\ UNCHANGED tables)]_vars

\* C8: add has raised the identity error on an index that holds tags and entries.
C8_Witness ==
  /\ LastAdd
  /\ hash(LastEntry) = Undefined
  /\ last.threw = "Error"
  /\ _allTags # <<>>
  /\ _allHashes # <<>>

\* C9: the only call that raises is add with an entry that has no hash key.
C9_OnlyIdentityErrorIsRaised ==
  last.threw # "none" => (LastAdd /\ hash(LastEntry) = Undefined)

C11_ReAddMergesTags ==
  [][(/\ last'.op = "add"
      /\ hash(last'.args[1]) # Undefined
      /\ SetHas(_allHashes, hash(last'.args[1]))
      /\ PropKey(hash(last'.args[1])) \in DOMAIN _tagsByEntryHash)
     =>
     (/\ PropKey(hash(last'.args[1])) \in DOMAIN _tagsByEntryHash'
      /\ Members(_tagsByEntryHash'[PropKey(hash(last'.args[1]))])
           = Members(_tagsByEntryHash[PropKey(hash(last'.args[1]))])
               \cup Members(normalizeTags(last'.args[2]))
      /\ _allHashes' = _allHashes
      /\ _entriesByHash' = _entriesByHash
      /\ numberOfEntries' = numberOfEntries)]_vars

\* C12: after add(e, [t1..tn]) of an entry not yet in the index with a non-empty
\* list of tags, tags.for(e) returns exactly {t1..tn} and values(ti) includes e
\* for every ti.
C12_AddRoundTrip ==
  [][(/\ last'.op = "add"
      /\ hash(last'.args[1]) # Undefined
      /\ ~SetHas(_allHashes, hash(last'.args[1]))
      /\ PropKey(hash(last'.args[1])) \notin DOMAIN _tagsByEntryHash
      /\ normalizeTags(last'.args[2]) # <<>>)
     =>
     (/\ tagsFor(This', last'.args[1]).threw = "none"
      /\ Members(tagsFor(This', last'.args[1]).ret)
           = Members(normalizeTags(last'.args[2]))
      /\ \A t \in Members(normalizeTags(last'.args[2])) :
           last'.args[1] \in Members(values(This', OneTag(t), NoTags).ret))]_vars

\* C13: adding a bare atomic value with no tags, directly or by constructing the
\* index from a list that holds it, when the value is not yet a tag, increases
\* numberOfTags by one, leaves numberOfEntries and allHashes unchanged and leaves
\* the tag present with an empty entry set.
C13_BareTagIsRegisteredEmpty ==
  [][(/\ last'.op = "add"
      /\ isAtomic(last'.args[1])
      /\ normalizeTags(last'.args[2]) = <<>>
      /\ ~SetHas(_allTags, last'.args[1]))
     =>
     (/\ numberOfTags' = numberOfTags + 1
      /\ numberOfEntries' = numberOfEntries
      /\ _allHashes' = _allHashes
      /\ SetHas(_allTags', last'.args[1])
      /\ PropKey(last'.args[1]) \in DOMAIN _hashesByTag'
      /\ _hashesByTag'[PropKey(last'.args[1])] = <<>>
      /\ (This = NewDex) =>
           (constructFromTags(NewDex, <<last'.args[1]>>, 1).this = This'))]_vars

\* C14: a remove that returns, returns the number of entries it deleted from the
\* index: in the direct form 1 when the target was in the index and 0 when it
\* was not, in the predicate form the number of entries it left without tags.
C14_RemoveReturnsDeletedCount ==
  [][(/\ last'.op \in {"remove", "removeWhere"}
      /\ last'.threw = "none")
     =>
     (/\ last'.ret = <<Len(_allHashes) - Len(_allHashes')>>
      /\ (last'.op = "remove") =>
           (last'.ret = <<IF SetHas(_allHashes, hash(last'.args[1]))
                          THEN 1 ELSE 0>>))]_vars

\* Some entry of the index has the tag in its tag set.
TagHasEntries(t) ==
  \E h \in HashKeys : SetHas(_allHashes, h) /\ HashHasTag(h, t)

\* C15: after remove(target, true) returns, every tag that had entries and was
\* left with none is absent from allTags and from hashesByTag, and every tag that
\* still has entries is kept in both.
C15_CascadeDropsEmptiedTags ==
  [][(/\ last'.op \in {"remove", "removeWhere"}
      /\ last'.args[2] = TRUE
      /\ last'.threw = "none")
     =>
     (\A t \in Atoms :
        (SetHas(_allTags, t) /\ TagHasEntries(t)) =>
          IF TagHasEntries(t)'
          THEN SetHas(_allTags', t) /\ PropKey(t) \in DOMAIN _hashesByTag'
          ELSE ~SetHas(_allTags', t) /\ PropKey(t) \notin DOMAIN _hashesByTag')]_vars

\* C16: remove with cleanEmptyTags false leaves allTags as it was, and a tag
\* leaves allTags only in a drop that names it, in a clear, or in the drop of a
\* remove with cleanEmptyTags true.
C16_TagsLeaveOnlyByDrop ==
  [][/\ (last'.op \in {"remove", "removeWhere"} /\ last'.args[2] = FALSE)
          => (_allTags' = _allTags)
     /\ \A t \in Atoms :
          (SetHas(_allTags, t) /\ ~SetHas(_allTags', t)) =>
            \/ last'.op = "drop" /\ t \in Members(last'.args[1])
            \/ last'.op = "clear"
            \/ last'.op \in {"remove", "removeWhere"} /\ last'.args[2] = TRUE]_vars

\* C16: a remove with cleanEmptyTags false has deleted an entry and left a tag of
\* allTags with no entry.
C16_Witness ==
  /\ last.op \in {"remove", "removeWhere"}
  /\ last.args[2] = FALSE
  /\ last.threw = "none"
  /\ _allHashes = <<>>
  /\ \E t \in Atoms : SetHas(_allTags, t) /\ ~TagHasEntries(t)

\* C17: drop(A) deletes from allHashes, entriesByHash and tagsByEntryHash every
\* entry whose only tag was A, leaves every entry that had A and another tag
\* with its tag set less A, and leaves every entry without A as it was.
C17_DropCascadesToEntries ==
  [][(/\ last'.op = "drop"
      /\ Len(last'.args[1]) = 1)
     =>
     (\A h \in HashKeys :
        (SetHas(_allHashes, h) /\ PropKey(h) \in DOMAIN _tagsByEntryHash) =>
          LET A == last'.args[1][1]
              tagsOfEntry == _tagsByEntryHash[PropKey(h)]
          IN IF tagsOfEntry = <<A>>
             THEN /\ ~SetHas(_allHashes', h)
                  /\ PropKey(h) \notin DOMAIN _entriesByHash'
                  /\ PropKey(h) \notin DOMAIN _tagsByEntryHash'
             ELSE /\ SetHas(_allHashes', h)
                  /\ PropKey(h) \in DOMAIN _tagsByEntryHash'
                  /\ _tagsByEntryHash'[PropKey(h)] = SetDelete(tagsOfEntry, A)
                  /\ PropKey(h) \in DOMAIN _entriesByHash'
                  /\ RecordGet(_entriesByHash', PropKey(h))
                       = RecordGet(_entriesByHash, PropKey(h)))]_vars

\* C18: drop(t1..tn) returns the entries that had at least one of the given tags
\* before the call, those it deleted included, each once and nothing else.
C18_DropReturnsTheEntriesOfItsTags ==
  [][(last'.op = "drop")
     =>
     (/\ last'.threw = "none"
      /\ Members(last'.ret)
           = {RecordGet(_entriesByHash, PropKey(h)) :
                h \in {k \in HashKeys :
                         /\ SetHas(_allHashes, k)
                         /\ \E t \in Members(last'.args[1]) : HashHasTag(k, t)}}
      /\ \A i, j \in DOMAIN last'.ret :
           (last'.ret[i] = last'.ret[j]) => (i = j))]_vars

\* C19: after clear() returns the index holds no tags and no entries:
\* numberOfTags and numberOfEntries are 0 and the five tables are empty.
C19_ClearEmptiesTheIndex ==
  [][(last'.op = "clear" /\ last'.threw = "none")
     =>
     (/\ numberOfTags' = 0
      /\ numberOfEntries' = 0
      /\ _allTags' = <<>>
      /\ _allHashes' = <<>>
      /\ DOMAIN _hashesByTag' = {}
      /\ DOMAIN _tagsByEntryHash' = {}
      /\ DOMAIN _entriesByHash' = {})]_vars

\* C20: after a drop that names a tag of allTags, the index has no property
\* named after the tag: the view is absent, not present with some value.
C20_DroppedTagHasNoView ==
  [][(last'.op = "drop" /\ last'.threw = "none")
     =>
     (\A t \in Members(last'.args[1]) :
        SetHas(_allTags, t) => PropKey(t) \notin DOMAIN view')]_vars

\* A list names no member twice.
NoDuplicates(list) ==
  \A i, j \in DOMAIN list : list[i] = list[j] => i = j

\* C21: in every reachable state forEach by entry and forEach by tag, with a
\* visitor that never answers BREAK, end normally and call the visitor with the
\* same set of (entry, tag) pairs, each pair once and none with an undefined
\* entry.
C21_BothOrdersVisitTheSamePairs ==
  LET byEntry == forEach(This, {}, "entry")
      byTag == forEach(This, {}, "tag")
  IN /\ byEntry.threw = "none"
     /\ byTag.threw = "none"
     /\ Members(byEntry.visited) = Members(byTag.visited)
     /\ NoDuplicates(byEntry.visited)
     /\ NoDuplicates(byTag.visited)
     /\ \A pair \in Members(byEntry.visited) \cup Members(byTag.visited) :
          pair[1] # Undefined

\* The group of a pair in a traversal: its entry when the outer loop is by
\* entry, its tag when it is by tag.
GroupOf(pair, outerLoopType) ==
  IF outerLoopType = "tag" THEN pair[2] ELSE pair[1]

\* The pairs of a whole traversal, from the k-th on, that no earlier pair of
\* their group answering BREAK cuts off.
RECURSIVE UpToBreak(_, _, _, _)
UpToBreak(whole, stopAt, outerLoopType, k) ==
  IF k > Len(whole) THEN <<>>
  ELSE (IF \E j \in 1..(k - 1) :
             /\ GroupOf(whole[j], outerLoopType) = GroupOf(whole[k], outerLoopType)
             /\ whole[j] \in stopAt
        THEN <<>>
        ELSE <<whole[k]>>)
       \o UpToBreak(whole, stopAt, outerLoopType, k + 1)

\* C22: whatever pairs the visitor of forEach answers BREAK for, in either
\* order, the traversal ends normally, visits no pair of a group after the
\* first of the group that got BREAK, and visits every other pair that the
\* traversal without BREAK visits: every later group from its first pair.
C22_BreakEndsOnlyItsGroup ==
  \A outerLoopType \in {"entry", "tag"} :
    LET whole == forEach(This, {}, outerLoopType)
    IN \A stopAt \in SUBSET Members(whole.visited) \ {{}} :
         LET cut == forEach(This, stopAt, outerLoopType)
         IN /\ cut.threw = "none"
            /\ cut.visited = UpToBreak(whole.visited, stopAt, outerLoopType, 1)


\* The entries of the hashes of _allHashes, in the order of the set.
EntriesInOrder ==
  [i \in DOMAIN _allHashes |->
     RecordGet(_entriesByHash, PropKey(_allHashes[i]))]

\* C23: whatever entries (tags) the visitor answers BREAK for, forEachEntry and
\* toArray call it once with every entry of the index, toArray collecting the
\* results that are not BREAK, and forEachTag and splay call it once with every
\* tag: BREAK does not end these traversals.
C23_BreakDoesNotAbortPerEntryOrTag ==
  /\ \A stopAt \in SUBSET Members(EntriesInOrder) \ {{}} :
       /\ forEachEntry(This, stopAt) = Visited(EntriesInOrder, "none")
       /\ toArray(This, stopAt) =
            Visited(SelectSeq(EntriesInOrder, LAMBDA e : e \notin stopAt),
                    "none")
  /\ \A stopAt \in SUBSET Members(_allTags) \ {{}} :
       /\ forEachTag(This, stopAt) = Visited(_allTags, "none")
       /\ splay(This, stopAt) =
            Visited(SelectSeq(_allTags, LAMBDA t : t \notin stopAt), "none")

\* The three ways to ask for the entries of the tags under the options: query
\* and values with the options first, filter with the tags first.
Answers(options, tags) ==
  {query(This, options, tags),
   values(This, options, tags),
   filter(This, Bound, tags,
          IF options.kind = "undefined" THEN Undefined ELSE options.items[1])}

\* The entries stored for a set of hashes.
EntriesOf(hashes) == {RecordGet(_entriesByHash, PropKey(h)) : h \in hashes}

\* The hashes of a tag in _hashesByTag.
HashesOf(t) ==
  IF PropKey(t) \in DOMAIN _hashesByTag
  THEN Members(_hashesByTag[PropKey(t)])
  ELSE {}

\* The lists of registered tags asked for: different tags, at least one.
TagLists ==
  {T \in TagArrays(Members(_allTags), MaxTagsPerCall) :
     T # <<>> /\ NoDuplicates(T)}

\* C24: for every list T of tags, a query with Or returns exactly the entries
\* of the hashes in the union of _hashesByTag[t], t in T, and a query with
\* Strict, with And or without options exactly those of the intersection.
C24_OrIsUnionStrictIsIntersection ==
  \A T \in TagLists :
    /\ \A answer \in Answers(OneTag(Number(Or)), TagArray(T)) :
         /\ answer.threw = "none"
         /\ Members(answer.ret) =
              EntriesOf(UNION {HashesOf(T[i]) : i \in DOMAIN T})
    /\ \A answer \in Answers(OneTag(Number(Strict)), TagArray(T))
                       \cup Answers(OneTag(Number(And)), TagArray(T))
                       \cup {query(This, TagArray(T), NoTags)} :
         /\ answer.threw = "none"
         /\ Members(answer.ret) =
              EntriesOf({h \in HashesOf(T[1]) :
                           \A i \in DOMAIN T : h \in HashesOf(T[i])})

\* C25: a query for [A] with Not returns exactly the entries of the hashes of
\* _allHashes that are not in _hashesByTag[A].
C25_NotIsComplement ==
  \A T \in {<<t>> : t \in Members(_allTags)} :
    \A answer \in Answers(OneTag(Number(Not)), TagArray(T)) :
      /\ answer.threw = "none"
      /\ Members(answer.ret) = EntriesOf(Members(_allHashes) \ HashesOf(T[1]))

\* C26: a Strict query without tags (no argument, the Strict flag alone, or
\* an empty tag list) returns the empty result.
C26_StrictWithoutTagsIsEmpty ==
  \A answer \in Answers(NoTags, NoTags)
                  \cup Answers(OneTag(Number(Strict)), NoTags)
                  \cup Answers(OneTag(Number(Strict)), TagArray(<<>>))
                  \cup {query(This, TagArray(<<>>), NoTags),
                        values(This, TagArray(<<>>), NoTags)} :
    /\ answer.threw = "none"
    /\ answer.ret = <<>>

\* C27: in every reachable state count(tag) returns, for every registered tag,
\* the number of hashes in _hashesByTag[tag], 0 for a tag without entries.
C27_CountIsTheSizeOfTheTag ==
  \A t \in Members(_allTags) :
    /\ count(This, OneTag(t), <<>>).threw = "none"
    /\ count(This, OneTag(t), <<>>).ret = <<Cardinality(HashesOf(t))>>

\* The latest call was select.<chain>(tagsOrOptions, additionalTags).
LastSelect == last.op = "select"
LastChain == last.args[1]
ExplicitFlag ==
  IF last.args[2] \in {OneTag(Number(f)) : f \in Flags}
  THEN ToInt32(last.args[2].items[1])
  ELSE Strict
GivenTags ==
  IF last.args[2] \in {OneTag(Number(f)) : f \in Flags}
  THEN last.args[3].items
  ELSE last.args[2].items \o last.args[3].items

\* The flags of a chain, merged by |.
RECURSIVE Accumulated(_)
Accumulated(chain) ==
  IF chain = <<>> THEN Strict
  ELSE BitOr(Accumulated(SubSeq(chain, 1, Len(chain) - 1)), chain[Len(chain)])

\* C28: a call of select behind any chain of accessors, with tags and possibly
\* an explicit flag before them, calls the base evaluation with exactly the
\* given tags and with the options that are the bitwise OR of the flags of the
\* chain and the explicit flag.
C28_ChainPassesTagsAndMergedFlags ==
  (LastSelect /\ GivenTags # <<>>)
    => LET call == selectCall(LastChain, last.args[2], last.args[3])
       IN /\ call.tags = TagArray(GivenTags)
          /\ ToInt32(call.options) = BitOr(Accumulated(LastChain), ExplicitFlag)

\* The latest call was new Dex(given).
LastNew == last.op = "new"
LastGiven == last.args[1]

\* The tags listed with an entry, and the entries listed with a tag, in what
\* the constructor was handed.
ListedTags(entry) ==
  UNION {Members(LastGiven.groups[i].tags) :
           i \in {j \in DOMAIN LastGiven.groups :
                    LastGiven.groups[j].entry = entry}}
ListedEntries == {LastGiven.groups[i].entry : i \in DOMAIN LastGiven.groups}

\* The index has every listed entry with exactly its listed tags, every listed
\* tag with exactly the entries listed with it, and as many entries and tags
\* as are listed.
HoldsWhatIsListed ==
  /\ last.threw = "none"
  /\ \A e \in ListedEntries :
       /\ SetHas(_allHashes, hash(e))
       /\ RecordGet(_entriesByHash, PropKey(hash(e))) = e
       /\ PropKey(hash(e)) \in DOMAIN _tagsByEntryHash
       /\ Members(_tagsByEntryHash[PropKey(hash(e))]) = ListedTags(e)
  /\ \A t \in UNION {ListedTags(e) : e \in ListedEntries} :
       /\ SetHas(_allTags, t)
       /\ HashesOf(t) = {hash(e) : e \in {d \in ListedEntries : t \in ListedTags(d)}}
  /\ numberOfEntries = Cardinality(ListedEntries)
  /\ numberOfTags = Cardinality(UNION {ListedTags(e) : e \in ListedEntries})

\* C29: an index constructed from groups [entry, tag...] or [entry, [tags]],
\* in one list or as several arguments, has each listed entry with exactly its
\* listed tags, each tag with exactly the entries listed with it, and the
\* numbers of distinct listed entries and tags for numberOfEntries and
\* numberOfTags.
C29_ConstructedFromGroups ==
  (LastNew /\ LastGiven.form \in {"nested", "variadic"}) => HoldsWhatIsListed

\* C30: an index constructed from a Map of entries to tags has one entry for
\* each key, with exactly the mapped tags for its tag set, and as many tags as
\* the values of the Map name.
C30_ConstructedFromMap ==
  (LastNew /\ LastGiven.form = "map")
    => /\ last.threw = "none"
       /\ \A e \in ListedEntries :
            /\ SetHas(_allHashes, hash(e))
            /\ RecordGet(_entriesByHash, PropKey(hash(e))) = e
            /\ PropKey(hash(e)) \in DOMAIN _tagsByEntryHash
            /\ Members(_tagsByEntryHash[PropKey(hash(e))]) = ListedTags(e)
       /\ Len(_allHashes) = Cardinality(ListedEntries)
       /\ numberOfEntries = Cardinality(ListedEntries)
       /\ numberOfTags = Cardinality(UNION {ListedTags(e) : e \in ListedEntries})

\* C31: in every reachable state, with hash keys of every kind, the list
\* entries has numberOfEntries members, hashes.size is the same number, and
\* tags.size is numberOfTags.
C31_CountsAgreeForEveryKeyKind ==
  /\ Len(entries(This)) = numberOfEntries
  /\ Len(_allHashes) = numberOfEntries
  /\ Len(_allTags) = numberOfTags

C35_AbsentTargetsChangeNothing ==
  [][(\/ /\ last'.op = "drop"
         /\ last'.args[1] # <<>>
         /\ \A i \in DOMAIN last'.args[1] : ~SetHas(_allTags, last'.args[1][i])
      \/ /\ last'.op = "remove"
         /\ ~SetHas(_allHashes, hash(last'.args[1])))
     =>
     (/\ last'.threw = "none"
      /\ last'.ret = (IF last'.op = "drop" THEN <<>> ELSE <<0>>)
      /\ UNCHANGED <<_allTags, _allHashes, _hashesByTag, _tagsByEntryHash,
                     _entriesByHash, _numberOfEntries>>)]_vars


\* C34: after remove(predicate) without the cleaning of emptied tags, every
\* (entry, tag) pair that was associated before the call is in both
\* hashesByTag and tagsByEntryHash when the predicate answered false for it,
\* and in neither when it answered true.
C34_PredicateRemoveSplitsThePairs ==
  [][(/\ last'.op = "removeWhere"
      /\ last'.args[2] = FALSE)
     =>
     \A t \in Atoms, h \in HashKeys :
       (TagHasHash(t, h) /\ HashHasTag(h, t))
       => IF Matches(last'.args[1], RecordGet(_entriesByHash, PropKey(h)), t)
          THEN ~TagHasHash(t, h)' /\ ~HashHasTag(h, t)'
          ELSE TagHasHash(t, h)' /\ HashHasTag(h, t)']_vars
\* Array.prototype.remove with a function target: the calls of the predicate
\* e => target(this._entriesByHash[e], t), in their order, each with the hash
\* it is called for and the index as it is during the call. Every turn of the
\* while loop runs findIndex from the first element.
RECURSIVE predicateCalls(_, _, _, _)
predicateCalls(this, array, target, t) ==
  LET index == findIndex(this, array, target, t, 1)
      turn == [k \in 1..(IF index = 0 THEN Len(array) ELSE index) |->
                 [t |-> t, h |-> array[k], this |-> this]]
  IN IF index = 0 THEN turn
     ELSE
       LET done == thenDo(this, array[index], t, 0)
       IN turn \o
          (IF done.threw # "none" THEN <<>>
           ELSE predicateCalls(done.this, splice(array, index), target, t))

\* remove, lines 907-934: the calls of the caller's predicate during
\* remove(target), from the i-th tag of _allTags on.
RECURSIVE removeCalls(_, _, _)
removeCalls(this, target, i) ==
  IF i > Len(this._allTags) THEN <<>>
  ELSE
    LET t == this._allTags[i]
        one == removeForTag(this, target, t, <<>>, 0)
    IN (IF PropKey(t) \in DOMAIN this._hashesByTag
        THEN predicateCalls(this, this._hashesByTag[PropKey(t)], target, t)
        ELSE <<>>)
       \o (IF one.threw # "none" THEN <<>>
           ELSE removeCalls(one.this, target, i + 1))

\* add, line 872: the index as it is when the view of the i-th of the given
\* tags has been recomputed.
viewedInAdd(this, entry, tags, i) ==
  addForTags(this, hash(entry), SubSeq(NewSet(normalizeTags(tags)), 1, i), 1)

\* C33: during one remove(predicate), the predicate is called exactly once for
\* every (tag, entry) pair that is associated when the call starts.
C33_PredicateCalledOncePerPair ==
  [][(last'.op = "removeWhere")
     =>
     \A t \in Atoms, h \in HashKeys :
       (TagHasHash(t, h) /\ HashHasTag(h, t))
       => Cardinality({k \in DOMAIN removeCalls(This, last'.args[1], 1) :
                         /\ removeCalls(This, last'.args[1], 1)[k].t = t
                         /\ removeCalls(This, last'.args[1], 1)[k].h = h})
          = 1]_vars

\* C32: when the tables agree before the call, they agree each time
\* remove(predicate) calls the predicate and each time add has recomputed a
\* view: hashesByTag and tagsByEntryHash hold the same pairs and every hash in
\* hashesByTag has a stored entry.
C32_CallbacksSeeAgreeingTables ==
  [][LET Agree(this) ==
           \A t \in Atoms, h \in HashKeys :
             /\ (/\ PropKey(t) \in DOMAIN this._hashesByTag
                 /\ SetHas(this._hashesByTag[PropKey(t)], h))
                <=> (/\ PropKey(h) \in DOMAIN this._tagsByEntryHash
                     /\ SetHas(this._tagsByEntryHash[PropKey(h)], t))
             /\ (/\ PropKey(t) \in DOMAIN this._hashesByTag
                 /\ SetHas(this._hashesByTag[PropKey(t)], h))
                => PropKey(h) \in DOMAIN this._entriesByHash
     IN (/\ Agree(This)
         /\ \/ last'.op = "removeWhere"
            \/ last'.op = "add" /\ hash(last'.args[1]) # Undefined)
        =>
        IF last'.op = "add"
        THEN \A i \in 1..Len(NewSet(normalizeTags(last'.args[2]))) :
               Agree(viewedInAdd(This, last'.args[1], last'.args[2], i))
        ELSE \A k \in DOMAIN removeCalls(This, last'.args[1], 1) :
               Agree(removeCalls(This, last'.args[1], 1)[k].this)]_vars


\* C37: registering or dropping a tag never replaces a field of the index, also
\* when the tag has the name of a field.
C37_TagsNeverReplaceMembers ==
  \A m \in MemberNames : m \notin DOMAIN view

\* C38: after add(entry, t) with one tag t that is not in a list, t is in
\* allTags and in the tag set of the entry, for every tag value, the falsy
\* tags 0 and "" too.
C38_SingleTagIsAssociated ==
  [][(/\ last'.op = "add"
      /\ last'.args[2].kind = "tag"
      /\ hash(last'.args[1]) # Undefined)
     =>
     (/\ SetHas(_allTags', last'.args[2].items[1])
      /\ PropKey(hash(last'.args[1])) \in DOMAIN _tagsByEntryHash'
      /\ SetHas(_tagsByEntryHash'[PropKey(hash(last'.args[1]))],
                last'.args[2].items[1]))]_vars

\* C36: a select call whose first argument is one tag, whatever its value
\* (the numbers 0, 1, 2, 4, 8, 16 too), is evaluated with that tag first in the
\* tag list and with no other options than those of the accessors before it:
\* Strict when there are none.
C36_TagIsNeverAFlagMask ==
  (LastSelect /\ last.args[2].kind = "tag")
    => LET call == selectCall(LastChain, last.args[2], last.args[3])
       IN /\ call.tags = TagArray(last.args[2].items \o last.args[3].items)
          /\ ToInt32(call.options) = Accumulated(LastChain)
====
